---- MODULE Spec2Model ----
(***************************************************************************)
(* Model of examples/compute-with-time/src/main.rs: the render-world       *)
(* systems of GameOfLifeComputePlugin (extract, prepare_time,              *)
(* queue_bind_group) and the render-graph node GameOfLifeNode (update,     *)
(* run), stepped once per frame in the stage order of the render app.      *)
(*                                                                         *)
(* The spec's names map to the source's as follows:                        *)
(*   Loading / Initializing / SteadyState  = GameOfLifeState::Loading /    *)
(*                                           Init / Update                 *)
(*   Pending / Ready / Failed              = CachedPipelineState::Queued / *)
(*                                           Ok / Err                      *)
(***************************************************************************)
EXTENDS Integers, Sequences, FiniteSets, TLC

\* ---------------------------------------------------------------- bounds
\* Elapsed time is counted in clock ticks; the clock saturates at MaxTime.
MaxTime == 3
\* Largest step of the clock between two frames.
MaxDelta == 2
\* Number of distinct bind-group identities before an identity is recycled.
BindGroupIds == 3
\* The frame counter saturates at MaxFrames.
MaxFrames == 3

\* ------------------------------------------------------ program constants
SIZE == <<1280, 720>>
WORKGROUP_SIZE == 8

\* Problem sizes the configuration surface is exercised with.
ConfigSizes == {<<1280, 720>>, <<1281, 720>>, <<16, 8>>}

Kernels == {"init", "update"}
CachedPipelineState == {"Queued", "Ok", "Err"}
GameOfLifeState == {"Loading", "Init", "Update"}

\* Handles created once at startup (setup, GameOfLifeComputePlugin::build).
ImageHandle == "image0"
TimeBuffer == "time uniform buffer"
NoBindGroup == [id |-> -1, image |-> "none", buffer |-> "none"]

VARIABLES
    size,            \* SIZE as configured
    state,           \* GameOfLifeNode.state
    pipelineState,   \* PipelineCache state of init_pipeline / update_pipeline
    elapsed,         \* main world Time::elapsed_seconds
    extractedTime,   \* ExtractedTime.seconds_since_startup (render world)
    timeBuffer,      \* content of TimeMeta.buffer at offset 0
    bindGroup,       \* GameOfLifeImageBindGroup resource
    pc,              \* position of the frame in the stage order
    dispatches,      \* dispatch_workgroups calls recorded in this frame
    panicked,        \* an unwrap / resource lookup has panicked
    prevState,       \* history: state at the start of this frame
    prevBindGroup,   \* history: bind group at the start of this frame
    prevTimeBuffer,  \* history: time buffer content at the start of this frame
    everFailed,      \* history: kernels whose handle has reported Err
    frame,           \* history: number of frames begun so far
    initDispatched   \* history: the init kernel was dispatched in some frame

vars == <<size, state, pipelineState, elapsed, extractedTime, timeBuffer,
          bindGroup, pc, dispatches, panicked, prevState, prevBindGroup,
          prevTimeBuffer, everFailed, frame, initDispatched>>

Min(a, b) == IF a < b THEN a ELSE b

\* ------------------------------------------------------- pure functions

\* ExtractedTime::extract_resource
extract_resource(time) == time

\* prepare_time: write_buffer(&time_meta.buffer, 0, [seconds_since_startup])
\* overwrites the single f32 at offset 0.
prepare_time_stale(buffer, seconds_since_startup) == buffer
prepare_time(buffer, seconds_since_startup) == seconds_since_startup

\* queue_bind_group: create_bind_group returns a new object on every call,
\* bundling the current image view (binding 0) and time buffer (binding 1).
queue_bind_group_cached(old, image, buffer) ==
    IF old # NoBindGroup /\ old.image = image /\ old.buffer = buffer
    THEN old
    ELSE [id |-> (old.id + 1) % BindGroupIds, image |-> image, buffer |-> buffer]
queue_bind_group(old, image, buffer) ==
    [id |-> (old.id + 1) % BindGroupIds, image |-> image, buffer |-> buffer]

\* GameOfLifeNode::update: the match on self.state.
update_skip(st, ps) ==
    CASE st = "Loading" ->
            IF ps["init"] = "Ok"
            THEN (IF ps["update"] = "Ok" THEN "Update" ELSE "Init")
            ELSE "Loading"
      [] st = "Init" -> IF ps["update"] = "Ok" THEN "Update" ELSE "Init"
      [] st = "Update" -> "Update"
update_stuck(st, ps) ==
    CASE st = "Loading" -> IF ps["init"] = "Ok" THEN "Init" ELSE "Loading"
      [] st = "Init" -> "Init"
      [] st = "Update" -> "Update"
update_on_any(st, ps) ==
    CASE st = "Loading" -> IF ps["init"] # "Queued" THEN "Init" ELSE "Loading"
      [] st = "Init" -> IF ps["update"] # "Queued" THEN "Update" ELSE "Init"
      [] st = "Update" -> "Update"
update(st, ps) ==
    CASE st = "Loading" -> IF ps["init"] = "Ok" THEN "Init" ELSE "Loading"
      [] st = "Init" -> IF ps["update"] = "Ok" THEN "Update" ELSE "Init"
      [] st = "Update" -> "Update"

\* GameOfLifeNode::run: the pipeline each arm of the match fetches.
SelectedKernel_eager(st) ==
    CASE st = "Loading" -> "update"
      [] st = "Init" -> "init"
      [] st = "Update" -> "update"
SelectedKernel(st) ==
    CASE st = "Loading" -> "none"
      [] st = "Init" -> "init"
      [] st = "Update" -> "update"

\* dispatch_workgroups(SIZE.0 / WORKGROUP_SIZE, SIZE.1 / WORKGROUP_SIZE, 1):
\* u32 division truncates.
WorkgroupCount_square(sz) ==
    <<sz[1] \div WORKGROUP_SIZE, sz[1] \div WORKGROUP_SIZE, 1>>
WorkgroupCount(sz) ==
    <<sz[1] \div WORKGROUP_SIZE, sz[2] \div WORKGROUP_SIZE, 1>>

\* PipelineCache::get_compute_pipeline: Some only for a pipeline in state Ok.
get_compute_pipeline(ps, k) == IF ps[k] = "Ok" THEN k ELSE "None"

\* ------------------------------------------------------------- initial

\* State after App construction: pipelines queued by from_world, node in
\* Loading (Default), TimeMeta { buffer, bind_group: None }.
InitWith(sizes) ==
    /\ size \in sizes
    /\ state = "Loading"
    /\ pipelineState = [k \in Kernels |-> "Queued"]
    /\ elapsed = 0
    /\ extractedTime = 0
    /\ timeBuffer = 0
    /\ bindGroup = NoBindGroup
    /\ pc = "Main"
    /\ dispatches = <<>>
    /\ panicked = FALSE
    /\ prevState = "Loading"
    /\ prevBindGroup = NoBindGroup
    /\ prevTimeBuffer = 0
    /\ everFailed = {}
    /\ frame = 0
    /\ initDispatched = FALSE

Init == InitWith({SIZE})
ConfigInit == InitWith(ConfigSizes)

\* ------------------------------------------------------------- actions

\* Main app update: the Time resource advances; a new frame begins.
MainUpdate ==
    /\ pc = "Main" /\ ~panicked
    /\ \E d \in 1..MaxDelta : elapsed' = Min(elapsed + d, MaxTime)
    /\ dispatches' = <<>>
    /\ prevState' = state
    /\ prevBindGroup' = bindGroup
    /\ prevTimeBuffer' = timeBuffer
    /\ frame' = Min(frame + 1, MaxFrames)
    /\ pc' = "Extract"
    /\ UNCHANGED <<size, state, pipelineState, extractedTime, timeBuffer,
                   bindGroup, panicked, everFailed, initDispatched>>

\* RenderStage::Extract: ExtractResourcePlugin<ExtractedTime>.
Extract ==
    /\ pc = "Extract" /\ ~panicked
    /\ extractedTime' = extract_resource(elapsed)
    /\ pc' = "Prepare"
    /\ UNCHANGED <<size, state, pipelineState, elapsed, timeBuffer, bindGroup,
                   dispatches, panicked, prevState, prevBindGroup, prevTimeBuffer, everFailed, frame, initDispatched>>

\* RenderStage::Prepare: prepare_time.
PrepareTime ==
    /\ pc = "Prepare" /\ ~panicked
    /\ timeBuffer' = prepare_time(timeBuffer, extractedTime)
    /\ pc' = "Queue"
    /\ UNCHANGED <<size, state, pipelineState, elapsed, extractedTime,
                   bindGroup, dispatches, panicked, prevState, prevBindGroup,
                   prevTimeBuffer, everFailed, frame, initDispatched>>

\* RenderStage::Queue: queue_bind_group.
QueueBindGroup ==
    /\ pc = "Queue" /\ ~panicked
    /\ bindGroup' = queue_bind_group(bindGroup, ImageHandle, TimeBuffer)
    /\ pc' = "Pipelines"
    /\ UNCHANGED <<size, state, pipelineState, elapsed, extractedTime,
                   timeBuffer, dispatches, panicked, prevState, prevBindGroup,
                   prevTimeBuffer, everFailed, frame, initDispatched>>

\* The pipeline cache settles the status each handle reports this frame:
\* compilation finishing or failing, or a watched shader file being reloaded
\* (AssetPlugin { watch_for_changes: true }).
ProcessPipelineQueue ==
    /\ pc = "Pipelines" /\ ~panicked
    /\ \E ps \in [Kernels -> CachedPipelineState] :
          /\ pipelineState' = ps
          /\ everFailed' = everFailed \cup {k \in Kernels : ps[k] = "Err"}
    /\ pc' = "Update"
    /\ UNCHANGED <<size, state, elapsed, extractedTime, timeBuffer, bindGroup,
                   dispatches, panicked, prevState, prevBindGroup,
                   prevTimeBuffer, frame, initDispatched>>

\* Render graph: GameOfLifeNode::update.
NodeUpdate ==
    /\ pc = "Update" /\ ~panicked
    /\ state' = update(state, pipelineState)
    /\ pc' = "Run"
    /\ UNCHANGED <<size, pipelineState, elapsed, extractedTime, timeBuffer,
                   bindGroup, dispatches, panicked, prevState, prevBindGroup,
                   prevTimeBuffer, everFailed, frame, initDispatched>>

\* Render graph: GameOfLifeNode::run.
NodeRun ==
    /\ pc = "Run" /\ ~panicked
    /\ LET k == SelectedKernel(state) IN
       IF bindGroup = NoBindGroup
       THEN \* world.resource::<GameOfLifeImageBindGroup>() panics
            /\ panicked' = TRUE
            /\ UNCHANGED <<dispatches, initDispatched>>
       ELSE IF k = "none"
       THEN UNCHANGED <<dispatches, panicked, initDispatched>>
       ELSE IF get_compute_pipeline(pipelineState, k) = "None"
       THEN \* .unwrap() on None
            /\ panicked' = TRUE
            /\ UNCHANGED <<dispatches, initDispatched>>
       ELSE /\ dispatches' = Append(dispatches,
                                [kernel |-> k,
                                 count |-> WorkgroupCount(size),
                                 time |-> timeBuffer,
                                 bindGroup |-> bindGroup.id])
            /\ initDispatched' = (initDispatched \/ k = "init")
            /\ UNCHANGED panicked
    /\ pc' = "Cleanup"
    /\ UNCHANGED <<size, state, pipelineState, elapsed, extractedTime,
                   timeBuffer, bindGroup, prevState, prevBindGroup,
                   prevTimeBuffer, everFailed, frame>>

\* RenderStage::Cleanup: the frame ends and the next one may begin.
Cleanup ==
    /\ pc = "Cleanup" /\ ~panicked
    /\ pc' = "Main"
    /\ UNCHANGED <<size, state, pipelineState, elapsed, extractedTime,
                   timeBuffer, bindGroup, dispatches, panicked, prevState,
                   prevBindGroup, prevTimeBuffer, everFailed, frame, initDispatched>>

Next ==
    \/ MainUpdate
    \/ Extract
    \/ PrepareTime
    \/ QueueBindGroup
    \/ ProcessPipelineQueue
    \/ NodeUpdate
    \/ NodeRun
    \/ Cleanup

Spec == Init /\ [][Next]_vars
ConfigSpec == ConfigInit /\ [][Next]_vars
\* The frame driver ticks every frame: no stage is skipped forever.
FairSpec == Init /\ [][Next]_vars /\ WF_vars(Next)

\* ------------------------------------------------------------- claims

\* C1: the dispatch state only moves Loading -> Init -> Update: no step takes
\* it from Loading to Update, from Update to anything else, or from Init back
\* to Loading, whatever the pipelines report.
C1_MonotonicState ==
    [][ /\ ~(state = "Loading" /\ state' = "Update")
        /\ (state = "Update" => state' = "Update")
        /\ (state = "Init" => state' # "Loading") ]_vars

\* C1 witness: a frame that began in Loading with both pipelines reporting Ok
\* has been through update and stopped at Init.
C1_Witness ==
    /\ pc = "Run" /\ prevState = "Loading" /\ state = "Init"
    /\ pipelineState["init"] = "Ok" /\ pipelineState["update"] = "Ok"

\* C2: a frame whose state after update is Loading issues no dispatch,
\* whatever the update pipeline reports.
C2_NoDispatchWhileLoading ==
    (pc = "Cleanup" /\ state = "Loading") => (dispatches = <<>> /\ ~panicked)

\* C2 witness: run has finished in Loading while the update pipeline is Ok.
C2_Witness ==
    /\ pc = "Cleanup" /\ state = "Loading"
    /\ pipelineState["update"] = "Ok"

\* C3: every dispatch of a frame reads from the time buffer the elapsed time
\* extracted in that same frame.
C3_FreshTimeAtDispatch ==
    \A i \in 1..Len(dispatches) :
        /\ dispatches[i].time = extractedTime
        /\ extractedTime = elapsed

\* C3 witness: a dispatch happened in a frame whose buffer held a different,
\* non-zero value when the frame began.
C3_Witness ==
    /\ pc = "Cleanup" /\ Len(dispatches) = 1
    /\ prevTimeBuffer > 0
    /\ prevTimeBuffer # dispatches[1].time

C5_Original ==
    /\ \A i \in 1..Len(dispatches) :
          /\ dispatches[i].count[1] * WORKGROUP_SIZE = size[1]
          /\ dispatches[i].count[2] * WORKGROUP_SIZE = size[2]
    /\ (size[1] % WORKGROUP_SIZE # 0 \/ size[2] % WORKGROUP_SIZE # 0) =>
          (pc = "Main" /\ elapsed = 0)

C7_Original ==
    /\ ~panicked
    /\ (pc = "Cleanup" /\ SelectedKernel(state) # "none") =>
          pipelineState[SelectedKernel(state)] = "Ok"

\* C8: with size (16,8) the workgroup count is (2,1,1); a frame begun in
\* Loading with both pipelines Queued ends in Loading with no dispatch; a
\* frame begun in Loading with init Ok and update Queued ends in Init with one
\* dispatch of init over (2,1,1); a frame begun in Init or Update with both
\* pipelines Ok ends in Update with one dispatch of update over (2,1,1).
C8_Scenario ==
    (size = <<16, 8>>) =>
        /\ WorkgroupCount(size) = <<2, 1, 1>>
        /\ (pc = "Cleanup" /\ prevState = "Loading"
                /\ pipelineState["init"] = "Queued"
                /\ pipelineState["update"] = "Queued")
              => (state = "Loading" /\ dispatches = <<>> /\ ~panicked)
        /\ (pc = "Cleanup" /\ prevState = "Loading"
                /\ pipelineState["init"] = "Ok"
                /\ pipelineState["update"] = "Queued")
              => /\ state = "Init" /\ ~panicked
                 /\ Len(dispatches) = 1
                 /\ dispatches[1].kernel = "init"
                 /\ dispatches[1].count = <<2, 1, 1>>
        /\ (pc = "Cleanup" /\ prevState \in {"Init", "Update"}
                /\ pipelineState["init"] = "Ok"
                /\ pipelineState["update"] = "Ok")
              => /\ state = "Update" /\ ~panicked
                 /\ Len(dispatches) = 1
                 /\ dispatches[1].kernel = "update"
                 /\ dispatches[1].count = <<2, 1, 1>>

\* C8 witness: with size (16,8), a frame begun in Update with both pipelines
\* Ok has dispatched update.
C8_Witness ==
    /\ size = <<16, 8>> /\ pc = "Cleanup"
    /\ prevState = "Update" /\ state = "Update"
    /\ pipelineState["init"] = "Ok" /\ pipelineState["update"] = "Ok"
    /\ Len(dispatches) = 1

\* C9 (as stated): a frame that ends in Init has issued exactly one dispatch,
\* of init, and a frame that ends in Update exactly one, of update, each over
\* (width / workgroup size, height / workgroup size, 1).
C9_Original ==
    (pc = "Cleanup") =>
        /\ (state = "Init") =>
              /\ Len(dispatches) = 1
              /\ dispatches[1].kernel = "init"
              /\ dispatches[1].count =
                    <<size[1] \div WORKGROUP_SIZE, size[2] \div WORKGROUP_SIZE, 1>>
        /\ (state = "Update") =>
              /\ Len(dispatches) = 1
              /\ dispatches[1].kernel = "update"
              /\ dispatches[1].count =
                    <<size[1] \div WORKGROUP_SIZE, size[2] \div WORKGROUP_SIZE, 1>>

C11_OneStepPerFrame ==
    /\ [][ /\ (pc # "Update") => (state' = state)
           /\ (state = "Loading") => (state' \in {"Loading", "Init"})
           /\ (state = "Init") => (state' \in {"Init", "Update"}) ]_vars
    /\ [](/\ (prevState = "Loading") => (state \in {"Loading", "Init"})
          /\ (\E i \in 1..Len(dispatches) : dispatches[i].kernel = "update")
                => /\ initDispatched
                   /\ \A i \in 1..Len(dispatches) : dispatches[i].kernel # "init"
          /\ (state = "Update") => (frame >= 2 /\ initDispatched))

\* C11 witness: the first frame, with both pipelines reporting Ok, has ended
\* in Init with one dispatch, of the init kernel.
C11_Witness ==
    /\ pc = "Cleanup" /\ frame = 1
    /\ pipelineState["init"] = "Ok" /\ pipelineState["update"] = "Ok"
    /\ state = "Init"
    /\ Len(dispatches) = 1 /\ dispatches[1].kernel = "init"

====
